---- MODULE Spec2Model ----
(***************************************************************************)
(* Component loading / execution orchestrator of scripts/core.js:          *)
(* loadComponentCSS, loadComponent, ComponentResourceTracker, the batch    *)
(* loaders, processNestedComponents, CriticalExecutor, DeferredLoader and  *)
(* ExecutionOrchestrator, with the component initializers of components/.  *)
(*                                                                         *)
(* Every synchronous run of JavaScript (one call from outside, one promise *)
(* continuation, one link event, one timer or observer callback) is one    *)
(* action.  The procedures are operators from a store (a record of the     *)
(* whole program state) to a store, composed as the code composes them.   *)
(***************************************************************************)
EXTENDS Integers, Sequences, FiniteSets, TLC

VARIABLES status, links, tracker, executedComponents, loadedComponents,
          observedComponents, ioTargets, tasks, pncCalls, moduleMap,
          initInvoked, loadedCount, unhandled, criticalExecuted, critEvents,
          attached, page, fallbackPending, calls, boot, modalSystem,
          fetchState

vars == <<status, links, tracker, executedComponents, loadedComponents,
          observedComponents, ioTargets, tasks, pncCalls, moduleMap,
          initInvoked, loadedCount, unhandled, criticalExecuted, critEvents,
          attached, page, fallbackPending, calls, boot, modalSystem,
          fetchState>>

\* The state of the component system, apart from a running jsonFetch.
siteVars == <<status, links, tracker, executedComponents, loadedComponents,
              observedComponents, ioTargets, tasks, pncCalls, moduleMap,
              initInvoked, loadedCount, unhandled, criticalExecuted,
              critEvents, attached, page, fallbackPending, calls, boot,
              modalSystem>>

\* Number of calls made from outside the core in one page session.
MaxCalls == 2

(***************************************************************************)
(* The document.  Four component elements: a critical nav, a deferred      *)
(* cards, a footer-brand nested in <footer>, and a cards inside the body   *)
(* of a modal that is appended to the document when the modal is shown.    *)
(***************************************************************************)
Elems == {"eNav", "eCards", "eBrand", "eModalCards"}

DomOrder == <<"eNav", "eCards", "eBrand", "eModalCards">>

Containers == {"document", "footer", "modal"}

\* component.classList[1]
componentName(el) ==
    CASE el = "eNav" -> "nav"
      [] el = "eCards" -> "cards"
      [] el = "eBrand" -> "footer-brand"
      [] el = "eModalCards" -> "cards"

Names == {componentName(el) : el \in Elems}

\* component.dataset.priority === 'critical'
isCriticalComponent(el) == el = "eNav"

\* The component elements below a container node.
Inside(cont) ==
    CASE cont = "document" -> Elems
      [] cont = "footer" -> {"eBrand"}
      [] cont = "modal" -> {"eModalCards"}

Statuses == {"unset", "loading", "executing", "loaded", "error"}

\* document.body.classList.contains('optimize')
optimize == page.optimize

\* 'IntersectionObserver' in window
hasIO == page.io

\* The pages a session starts from: a page in normal browsing mode and the
\* page captured in optimize mode.
Pages ==
    {[optimize |-> FALSE, io |-> TRUE, prerendered |-> FALSE],
     [optimize |-> TRUE, io |-> TRUE, prerendered |-> FALSE]}

\* The page in a browser without IntersectionObserver.
NoObserverPage == [optimize |-> FALSE, io |-> FALSE, prerendered |-> FALSE]

\* A page whose <footer> was prerendered: marked loaded around a
\* footer-brand left at 'loading'.
PrerenderedPage == [optimize |-> FALSE, io |-> TRUE, prerendered |-> TRUE]

\* The prerendered page in a browser without IntersectionObserver.
NoObserverPrerenderedPage ==
    [optimize |-> FALSE, io |-> FALSE, prerendered |-> TRUE]

\* The component elements of a page's markup: the prerendered page is the
\* one with the footer, the others have a modal to show (none is shown in
\* the browser without IntersectionObserver).
PageElems(p) ==
    IF p.prerendered THEN {"eNav", "eCards", "eBrand"}
    ELSE IF p.io THEN {"eNav", "eCards", "eModalCards"}
    ELSE {"eNav", "eCards"}

\* The nodes carrying data-status="loaded" that are not component elements.
LoadedNodes == IF page.prerendered THEN {"footer"} ELSE {}

(***************************************************************************)
(* The store: the program state as one record, with the return value of    *)
(* the last procedure (ret, cssRet) and whether it threw (thrown).         *)
(***************************************************************************)
Cur ==
    [status |-> status, links |-> links, tracker |-> tracker,
     executedComponents |-> executedComponents,
     loadedComponents |-> loadedComponents,
     observedComponents |-> observedComponents, ioTargets |-> ioTargets,
     tasks |-> tasks, pncCalls |-> pncCalls, moduleMap |-> moduleMap,
     initInvoked |-> initInvoked, loadedCount |-> loadedCount,
     unhandled |-> unhandled, criticalExecuted |-> criticalExecuted,
     critEvents |-> critEvents, attached |-> attached,
     fallbackPending |-> fallbackPending, boot |-> boot,
     modalSystem |-> modalSystem,
     ret |-> 0, cssRet |-> "none", thrown |-> FALSE]

\* The step from the current state to the store s.
Commit(s) ==
    /\ status' = s.status
    /\ links' = s.links
    /\ tracker' = s.tracker
    /\ executedComponents' = s.executedComponents
    /\ loadedComponents' = s.loadedComponents
    /\ observedComponents' = s.observedComponents
    /\ ioTargets' = s.ioTargets
    /\ tasks' = s.tasks
    /\ pncCalls' = s.pncCalls
    /\ moduleMap' = s.moduleMap
    /\ initInvoked' = s.initInvoked
    /\ loadedCount' = s.loadedCount
    /\ unhandled' = s.unhandled
    /\ criticalExecuted' = s.criticalExecuted
    /\ critEvents' = s.critEvents
    /\ attached' = s.attached
    /\ fallbackPending' = s.fallbackPending
    /\ boot' = s.boot
    /\ modalSystem' = s.modalSystem
    /\ page' = page
    /\ fetchState' = fetchState

\* $$('.component'): the component elements of the document, in DOM order.
Components(s) == SelectSeq(DomOrder, LAMBDA c : c \in s.attached)

Task(kind, el, name, id, via, css, cont) ==
    [kind |-> kind, el |-> el, name |-> name, id |-> id, via |-> via,
     css |-> css, imp |-> "wait", cont |-> cont]

(***************************************************************************)
(* loadComponentCSS(componentName): resolves at once when the document    *)
(* holds a link with the href, else appends a link whose load or error     *)
(* event settles the promise.  waiter is the element whose loadComponent   *)
(* awaits the promise, "none" when the caller drops it.                    *)
(***************************************************************************)
loadComponentCSS(s, name, id, waiter) ==
    IF \E l \in s.links : l.name = name
    THEN [s EXCEPT !.cssRet = "ok"]
    ELSE [s EXCEPT !.links = @ \cup {[name |-> name, by |-> "single",
                                      id |-> id, el |-> waiter,
                                      state |-> "pending"]},
                   !.cssRet = "wait"]

(***************************************************************************)
(* A component module's default export, e.g. initializeCards(component):   *)
(* an async function that returns when the status is 'loaded' and else     *)
(* suspends on import('../../../scripts/app.js'); the rest (build, then    *)
(* markLoaded) runs in InitializerResume.  via names the caller.           *)
(***************************************************************************)
initializer(s, el, id, via) ==
    IF s.status[el] = "loaded" THEN s
    ELSE [s EXCEPT !.tasks = @ \cup {Task("init", el, componentName(el), id,
                                          via, "none", "none")},
                   !.initInvoked[el] = @ + 1]

\* markLoaded that dispatches its event without writing the status.
markLoadedWithoutStatus(s, el) == [s EXCEPT !.loadedCount[el] = @ + 1]

\* markLoaded(component, componentName)
markLoaded(s, el) ==
    [s EXCEPT !.status[el] = "loaded", !.loadedCount[el] = @ + 1]

(***************************************************************************)
(* loadComponent(component), up to its await: the early return, the        *)
(* status 'loading', the stylesheet and the import started together.       *)
(***************************************************************************)
loadComponent(s, el, id, via) ==
    IF s.status[el] = "loaded" THEN s
    ELSE LET s1 == [s EXCEPT !.status[el] = "loading"]
             s2 == loadComponentCSS(s1, componentName(el), id, el)
         IN [s2 EXCEPT !.tasks = @ \cup {Task("load", el, componentName(el),
                                              id, via, s2.cssRet, "none")}]

\* The catch block of loadComponent.
loadComponentCatch(s, el) ==
    IF ~optimize THEN [s EXCEPT !.status[el] = "error"] ELSE s

\* loadAndExecuteComponent without the loaded-set check.
loadAndExecuteComponentUnguarded(s, el, id) ==
    loadComponent([s EXCEPT !.loadedComponents = @ \cup {el}],
                  el, id, "deferred")

(***************************************************************************)
(* DeferredLoader.loadAndExecuteComponent(component).  loadComponent       *)
(* catches every failure itself, so the await never throws and the catch   *)
(* that deletes the element from loadedComponents has no way to run.       *)
(***************************************************************************)
loadAndExecuteComponent(s, el, id) ==
    IF el \in s.loadedComponents THEN s
    ELSE loadComponent([s EXCEPT !.loadedComponents = @ \cup {el}],
                       el, id, "deferred")

RECURSIVE loadAndExecuteEach(_, _, _)
loadAndExecuteEach(s, list, id) ==
    IF list = <<>> THEN s
    ELSE loadAndExecuteEach(loadAndExecuteComponent(s, Head(list), id),
                            Tail(list), id)

(***************************************************************************)
(* ComponentResourceTracker: loadedResources is a record of two sets of    *)
(* names, css and js.  isLoaded gives back the record it leaves and the    *)
(* value it returns.                                                       *)
(***************************************************************************)
ResourceTypes == {"css", "js"}

isLoaded(loadedResources, name, type) ==
    [loadedResources |-> loadedResources,
     ret |-> name \in loadedResources[type]]

\* A markLoaded that replaces the set of the type by the one name.
trackerMarkLoadedReplacing(loadedResources, name, type) ==
    [loadedResources EXCEPT ![type] = {name}]

\* ComponentResourceTracker.markLoaded(componentName, type)
trackerMarkLoaded(loadedResources, name, type) ==
    [loadedResources EXCEPT ![type] = @ \cup {name}]

(***************************************************************************)
(* loadComponentsCSS(componentNames, 'non-blocking'): one link appended    *)
(* for every name the resource tracker does not report loaded.            *)
(***************************************************************************)
loadComponentsCSS(s, names, id) ==
    [s EXCEPT !.links = @ \cup {[name |-> n, by |-> "batch", id |-> id,
                                 el |-> "none", state |-> "pending"] :
                                n \in {m \in names :
                                          ~isLoaded(s.tracker, m, "css").ret}}]

(***************************************************************************)
(* loadAndInitializeComponentsJS(componentNames, context), up to its       *)
(* awaits: one import started for every name the tracker does not report   *)
(* loaded.  pncCalls keeps every call: its container, the names still      *)
(* awaited (Promise.all has resolved when none is), the elements whose     *)
(* initializer it invoked, and whether every import resolved.              *)
(***************************************************************************)
loadAndInitializeComponentsJS(s, names, cont, excl, id) ==
    LET pending == {m \in names : ~isLoaded(s.tracker, m, "js").ret}
        call == [id |-> id, cont |-> cont, excl |-> excl,
                 pending |-> pending, inv |-> {}, ok |-> TRUE]
    IN [s EXCEPT !.tasks = @ \cup {Task("batch", "none", n, id, "batch",
                                          "none", cont) : n \in pending},
                 !.pncCalls = @ \cup {call}]

\* processNestedComponents that loads per element instead of per distinct
\* name.
processNestedComponentsPerElement(s, cont, excl, id) ==
    LET components == {c \in Inside(cont) \cap s.attached :
                          componentName(c) \notin excl}
        call == [id |-> id, cont |-> cont, excl |-> excl,
                 pending |-> {componentName(c) : c \in components}
                                 \ s.tracker.js,
                 inv |-> {}, ok |-> TRUE]
    IN [s EXCEPT
          !.links = @ \cup {[name |-> componentName(c), by |-> "batch",
                             id |-> id, el |-> c, state |-> "pending"] :
                            c \in {d \in components :
                                      componentName(d) \notin s.tracker.css}},
          !.tasks = @ \cup {Task("batch", c, componentName(c), id, "batch",
                                  "none", cont) :
                            c \in {d \in components :
                                      componentName(d) \notin s.tracker.js}},
          !.pncCalls = @ \cup {call}]

\* processNestedComponents(container, excludeComponents)
processNestedComponents(s, cont, excl, id) ==
    LET components == Inside(cont) \cap s.attached
        componentNames == {componentName(c) : c \in components} \ excl
        none == [id |-> id, cont |-> cont, excl |-> excl, pending |-> {},
                 inv |-> {}, ok |-> TRUE]
    IN IF components = {} \/ componentNames = {}
       THEN [s EXCEPT !.pncCalls = @ \cup {none}]
       ELSE loadAndInitializeComponentsJS(
                loadComponentsCSS(s, componentNames, id),
                componentNames, cont, excl, id)

(***************************************************************************)
(* CriticalExecutor                                                        *)
(***************************************************************************)
\* executeSingleComponent that does not consult the executed-set.
executeSingleComponentUnguarded(s, el, id) ==
    LET s1 == [s EXCEPT !.executedComponents = @ \cup {el},
                        !.status[el] = "executing"]
        s2 == loadComponentCSS(s1, componentName(el), id, "none")
    IN [s2 EXCEPT !.tasks = @ \cup {Task("crit", el, componentName(el), id,
                                          "critical", "none", "none")}]

\* executeSingleComponent that records the element only once its import has
\* resolved: nothing is recorded in the dispatching pass.
executeSingleComponentUnrecorded(s, el, id) ==
    IF el \in s.executedComponents THEN s
    ELSE LET s2 == loadComponentCSS(s, componentName(el), id, "none")
         IN [s2 EXCEPT !.tasks = @ \cup {Task("crit", el, componentName(el),
                                              id, "critical", "none",
                                              "none")}]

\* executeSingleComponent(component), up to the import's settlement.
executeSingleComponent(s, el, id) ==
    IF el \in s.executedComponents THEN s
    ELSE LET s1 == [s EXCEPT !.executedComponents = @ \cup {el},
                             !.status[el] = "executing"]
             s2 == loadComponentCSS(s1, componentName(el), id, "none")
         IN [s2 EXCEPT !.tasks = @ \cup {Task("crit", el, componentName(el),
                                              id, "critical", "none",
                                              "none")}]

\* The .catch of executeSingleComponent's import.
executeSingleCatch(s, el) ==
    IF ~optimize THEN [s EXCEPT !.status[el] = "error"] ELSE s

discoverCriticalComponents(s) ==
    SelectSeq(Components(s),
              LAMBDA c : /\ isCriticalComponent(c)
                         /\ c \notin s.executedComponents
                         /\ s.status[c] # "loaded")

RECURSIVE executeEach(_, _, _)
executeEach(s, list, id) ==
    IF list = <<>> THEN s
    ELSE executeEach(executeSingleComponent(s, Head(list), id),
                     Tail(list), id)

\* executeImmediate that signals completion whether or not it found an
\* element.
executeImmediateAlwaysSignals(s, id) ==
    IF s.criticalExecuted THEN [s EXCEPT !.ret = 0]
    ELSE LET criticalComponents == discoverCriticalComponents(s)
             s1 == executeEach(s, criticalComponents, id)
         IN [s1 EXCEPT !.criticalExecuted = TRUE,
                       !.critEvents = Append(@, criticalComponents),
                       !.ret = Len(criticalComponents)]

\* executeImmediate that does not look at the page-level marker.
executeImmediateUnmarked(s, id) ==
    LET criticalComponents == discoverCriticalComponents(s)
        s1 == executeEach(s, criticalComponents, id)
    IN IF Len(criticalComponents) > 0
       THEN [s1 EXCEPT !.criticalExecuted = TRUE,
                       !.critEvents = Append(@, criticalComponents),
                       !.ret = Len(criticalComponents)]
       ELSE [s1 EXCEPT !.ret = 0]

executeImmediate(s, id) ==
    IF s.criticalExecuted THEN [s EXCEPT !.ret = 0]
    ELSE LET criticalComponents == discoverCriticalComponents(s)
             s1 == executeEach(s, criticalComponents, id)
         IN IF Len(criticalComponents) > 0
            THEN [s1 EXCEPT !.criticalExecuted = TRUE,
                            !.critEvents = Append(@, criticalComponents),
                            !.ret = Len(criticalComponents)]
            ELSE [s1 EXCEPT !.ret = 0]

(***************************************************************************)
(* DeferredLoader                                                          *)
(***************************************************************************)
InSeq(x, list) == \E i \in 1..Len(list) : list[i] = x

\* Discovery that does not search the loaded containers.
nestedLoadingComponentsSkipped(s) == SelectSeq(Components(s), LAMBDA c : FALSE)

\* The .component[data-status="loading"] elements below a loaded node.
nestedLoadingComponents(s) ==
    SelectSeq(Components(s),
              LAMBDA c : /\ s.status[c] = "loading"
                         /\ \E k \in LoadedNodes : c \in Inside(k))

\* The candidates when the priority marker is not consulted.
deferredCandidatesAnyPriority(s) ==
    SelectSeq(Components(s),
              LAMBDA c : /\ s.status[c] # "loaded"
                         /\ c \notin s.loadedComponents)

deferredCandidates(s) ==
    SelectSeq(Components(s),
              LAMBDA c : /\ ~isCriticalComponent(c)
                         /\ s.status[c] # "loaded"
                         /\ c \notin s.loadedComponents)

\* observableComponents.forEach: observedComponents.add, then
\* this.observer.observe, a TypeError when this.observer is null.
RECURSIVE observeEach(_, _)
observeEach(s, list) ==
    IF list = <<>> THEN s
    ELSE LET c == Head(list)
         IN IF c \in s.observedComponents THEN observeEach(s, Tail(list))
            ELSE IF ~hasIO
            THEN [s EXCEPT !.observedComponents = @ \cup {c},
                           !.thrown = TRUE]
            ELSE observeEach([s EXCEPT !.observedComponents = @ \cup {c},
                                       !.ioTargets = @ \cup {c}],
                             Tail(list))

\* observeNonCriticalComponents without the optimize-mode branch.
observeNonCriticalComponentsNoBypass(s, id) ==
    LET base == deferredCandidates(s)
        nested == nestedLoadingComponents(s)
        deferredComponents ==
            base \o SelectSeq(nested,
                              LAMBDA c : /\ c \notin s.loadedComponents
                                         /\ ~InSeq(c, base))
        s1 == loadAndExecuteEach(
                  s, SelectSeq(deferredComponents, LAMBDA c : InSeq(c, nested)),
                  id)
        s2 == observeEach(
                  s1, SelectSeq(deferredComponents,
                                LAMBDA c : ~InSeq(c, nested)))
    IN IF s2.thrown THEN s2
       ELSE [s2 EXCEPT !.ret = Len(deferredComponents)]

observeNonCriticalComponents(s, id) ==
    LET base == deferredCandidates(s)
        nested == nestedLoadingComponents(s)
        deferredComponents ==
            base \o SelectSeq(nested,
                              LAMBDA c : /\ c \notin s.loadedComponents
                                         /\ ~InSeq(c, base))
        immediateComponents ==
            SelectSeq(deferredComponents, LAMBDA c : InSeq(c, nested))
        observableComponents ==
            SelectSeq(deferredComponents, LAMBDA c : ~InSeq(c, nested))
    IN IF optimize
       THEN [loadAndExecuteEach(s, deferredComponents, id)
                EXCEPT !.ret = Len(deferredComponents)]
       ELSE LET s1 == loadAndExecuteEach(s, immediateComponents, id)
                s2 == observeEach(s1, observableComponents)
            IN IF s2.thrown THEN s2
               ELSE [s2 EXCEPT !.ret = Len(deferredComponents)]

\* The timer callback of fallbackLoading.
fallbackLoading(s, id) ==
    [loadAndExecuteEach(s, deferredCandidates(s), id)
        EXCEPT !.fallbackPending = FALSE]

(***************************************************************************)
(* ExecutionOrchestrator                                                   *)
(***************************************************************************)
RECURSIVE ensureEach(_, _, _)
ensureEach(s, list, id) ==
    IF list = <<>> THEN s
    ELSE ensureEach(loadComponentCSS(s, componentName(Head(list)), id,
                                     "none"),
                    Tail(list), id)

ensureAllComponentCSS(s, id) == ensureEach(s, Components(s), id)

\* ExecutionOrchestrator.loadLazyCSS(): a link for /styles/lazy.css is
\* appended unless the page is in optimize mode or the document holds one.
loadLazyCSS(s) ==
    IF optimize \/ s.boot.lazyLink THEN s
    ELSE [s EXCEPT !.boot.lazyLink = TRUE]

preloadNonCriticalCSS(s, id) ==
    IF optimize THEN s
    ELSE loadLazyCSS(
             loadComponentsCSS(
                 s,
                 {componentName(c) :
                     c \in {d \in s.attached : /\ ~isCriticalComponent(d)
                                               /\ s.status[d] # "loaded"}},
                 id))

(***************************************************************************)
(* init() of ExecutionOrchestrator (variant "core") and of its override    *)
(* in SiteOrchestrator (variant "site").  boot.phases lists the phases in  *)
(* the order they were entered.                                            *)
(***************************************************************************)
HeavyDeps == {"bootstrap", "lazyCSS", "modalSystem"}

Phase(s, name) == [s EXCEPT !.boot.phases = Append(@, name)]

\* window.location.hostname === 'localhost' || ... === '127.0.0.1'; a
\* hostname is the sequence of its labels.
isLocal(hostname) ==
    hostname = <<"localhost">> \/ hostname = <<"127", "0", "0", "1">>

\* window.location.hostname.endsWith('.nimbusedge.app')
isNimbusEdge(hostname) ==
    /\ Len(hostname) >= 3
    /\ hostname[Len(hostname) - 1] = "nimbusedge"
    /\ hostname[Len(hostname)] = "app"

\* ProgressiveEnhancement.loadGoogleTagManager(gtmId), called with a
\* configured id on a page where window.google_tag_manager is not set.
loadGoogleTagManager(s) ==
    IF optimize THEN s ELSE [s EXCEPT !.boot.gtm = TRUE]

\* The last phase of init(): if (this.config.analytics?.gtmId ...), the
\* override adding && !isLocal && !isNimbusEdge.
analyticsPhase(s) ==
    LET s1 == Phase(s, "analytics")
    IN IF /\ s.boot.gtmId
          /\ s.boot.variant = "site"
                 => (/\ ~isLocal(s.boot.hostname)
                     /\ ~isNimbusEdge(s.boot.hostname))
       THEN loadGoogleTagManager(s1)
       ELSE s1

\* init() after loadHeavyDependencies has resolved, skipping the wiring
\* when a dependency failed.
heavyResumeFailFast(s) ==
    IF \E d \in HeavyDeps : s.boot.deps[d] = "failed"
    THEN [s EXCEPT !.boot.settled = "rejected"]
    ELSE [analyticsPhase([Phase(s, "modalHandlers")
                            EXCEPT !.boot.handlers = TRUE])
             EXCEPT !.boot.settled = "resolved"]

\* init() after `await loadHeavyDependencies()`: setupModalHandlers, the
\* analytics phase, return this.
heavyResume(s) ==
    [analyticsPhase([Phase(s, "modalHandlers") EXCEPT !.boot.handlers = TRUE])
        EXCEPT !.boot.settled = "resolved"]

\* loadHeavyDependencies(), up to its await: loadBootstrap starts its
\* import, loadLazyCSS resolves at once when the document holds the link
\* and else appends it, loadModalSystem starts its import.
loadHeavyDependencies(s) ==
    [Phase(s, "heavy")
        EXCEPT !.boot.deps = [d \in HeavyDeps |->
                                 IF d = "lazyCSS" /\ s.boot.lazyLink
                                 THEN "ok" ELSE "wait"],
               !.boot.lazyLink = TRUE]

\* One of the three promises settles: the import of bootstrap.js (its
\* rejection caught in loadBootstrap), the link of lazy.css (its error
\* rejects the promise, which allSettled absorbs), the import of modals.js
\* followed by its default export (both inside the try of
\* loadModalSystem).  When all three have settled, init() resumes.
depSettled(s, d, ok) ==
    LET s1 == [s EXCEPT !.boot.deps[d] = IF ok THEN "ok" ELSE "failed"]
    IN IF \A e \in HeavyDeps : s1.boot.deps[e] \in {"ok", "failed"}
       THEN heavyResume(s1)
       ELSE s1

\* The override after `await loadVendorLibraries()`, which catches the
\* failures of its scripts: playNavbarAnimation, scrollAnimations.init()
\* (which returns at once in optimize mode and may throw when a vendor
\* global is missing), then the heavy dependencies.
vendorSettled(s, ok, throws) ==
    LET s1 == Phase([s EXCEPT !.boot.vendor = IF ok THEN "ok" ELSE "failed"],
                    "scroll")
    IN IF ~ok /\ throws /\ ~optimize
       THEN [s1 EXCEPT !.boot.settled = "rejected"]
       ELSE loadHeavyDependencies(s1)

\* init() with the deferred observation ahead of the critical dispatch.
orchestratorInitObserveFirst(s, id) ==
    LET s0 == IF s.boot.variant = "core"
              THEN Phase(ensureAllComponentCSS(s, id), "css") ELSE s
        s1 == Phase(observeNonCriticalComponents(s0, id), "observe")
        s2 == Phase(executeImmediate(s1, id), "critical")
        s3 == Phase(preloadNonCriticalCSS(s2, id), "preload")
        s4 == Phase(s3, "navigation")
    IN IF s.boot.variant = "core"
       THEN [loadHeavyDependencies(s4) EXCEPT !.boot.settled = "pending"]
       ELSE [Phase(s4, "vendor") EXCEPT !.boot.vendor = "wait",
                                        !.boot.settled = "pending"]

\* init(), everything before its first await: the phases up to the
\* navigation hooks, then the call of loadHeavyDependencies (core) or of
\* loadVendorLibraries (site).  A throw of observeNonCriticalComponents
\* rejects the promise of init.
orchestratorInit(s, id) ==
    LET s0 == IF s.boot.variant = "core"
              THEN Phase(ensureAllComponentCSS(s, id), "css") ELSE s
        s1 == Phase(executeImmediate(s0, id), "critical")
        s2 == Phase(preloadNonCriticalCSS(s1, id), "preload")
        s3 == Phase(observeNonCriticalComponents(s2, id), "observe")
        s4 == Phase(s3, "navigation")
    IN IF s3.thrown THEN [s3 EXCEPT !.boot.settled = "rejected"]
       ELSE IF s.boot.variant = "core"
       THEN [loadHeavyDependencies(s4) EXCEPT !.boot.settled = "pending"]
       ELSE [Phase(s4, "vendor") EXCEPT !.boot.vendor = "wait",
                                        !.boot.settled = "pending"]

\* executeComponent that starts the load of a deferred element without the
\* loaded-set.
executeComponentUnguarded(s, el, id) ==
    IF isCriticalComponent(el) THEN executeSingleComponent(s, el, id)
    ELSE loadComponent(s, el, id, "deferred")

\* executeComponent(component)
executeComponent(s, el, id) ==
    IF isCriticalComponent(el) THEN executeSingleComponent(s, el, id)
    ELSE loadAndExecuteComponent(s, el, id)

(***************************************************************************)
(* ModalSystem.handleModalTrigger(event).  loadingStates is the set of     *)
(* URLs the Map holds; loads are the invocations that have passed the      *)
(* check and not yet left the try statement, each awaiting its fetch or    *)
(* the processNestedComponents of its showModal.                           *)
(***************************************************************************)
\* The URLs of the trigger buttons of the page.
Urls == {"/modals/contact"}

\* The data-url values of modal elements: showErrorModal shows its content
\* under the URL 'error'.
ModalUrls == Urls \cup {"error"}

\* The ModalSystem after construction.  hiddenListeners counts the
\* 'hidden.bs.modal' listeners on the modal element of a URL, shown is the
\* URL of the modal with a live Bootstrap instance, lastHide what the
\* latest hide ran.
NewModalSystem ==
    [loadingStates |-> {}, loads |-> {}, triggers |-> 0,
     hiddenListeners |-> [u \in ModalUrls |-> 0],
     activeModal |-> "none", shown |-> "none",
     lastHide |-> [cleanups |-> 0, closed |-> 0]]

\* 'hidden.bs.modal' is dispatched on the shown modal: every listener
\* setupModalEventListeners added to the element runs cleanupModal(modal)
\* and dispatches one 'modal:closed'.
modalHidden(s) ==
    LET u == s.modalSystem.shown
        n == s.modalSystem.hiddenListeners[u]
    IN [s EXCEPT !.modalSystem.lastHide = [cleanups |-> n, closed |-> n],
                 !.modalSystem.shown = "none",
                 !.modalSystem.activeModal =
                     IF n > 0 /\ @ = u THEN "none" ELSE @]

\* closeModal(): hides the active modal when it has a Bootstrap instance.
closeModal(s) ==
    IF /\ s.modalSystem.activeModal # "none"
       /\ s.modalSystem.shown = s.modalSystem.activeModal
    THEN modalHidden(s)
    ELSE s

\* The end of showModal: new bootstrap.Modal(modal),
\* setupModalEventListeners(modal, bsModal, triggerButton), bsModal.show().
showModalEnd(s, url) ==
    [s EXCEPT !.modalSystem.hiddenListeners[url] = @ + 1,
              !.modalSystem.shown = url]

\* showErrorModal(message): showModal(errorContent, 'error', null), whose
\* content holds no component.
showErrorModal(s) ==
    showModalEnd([closeModal(s) EXCEPT !.modalSystem.activeModal = "error"],
                 "error")

\* The finally block: this.loadingStates.delete(url).
triggerFinally(s, url) ==
    [s EXCEPT !.modalSystem.loadingStates = @ \ {url}]

\* handleModalTrigger up to its first await.  The return of an ignored
\* trigger stands inside the try statement, so the finally block runs on
\* it too.
handleModalTrigger(s, url, id) ==
    LET s1 == [s EXCEPT !.modalSystem.triggers = @ + 1]
    IN IF url \in s.modalSystem.loadingStates
       THEN triggerFinally(s1, url)
       ELSE [s1 EXCEPT !.modalSystem.loadingStates = @ \cup {url},
                       !.modalSystem.loads =
                           @ \cup {[url |-> url, id |-> id,
                                    stage |-> "fetch"]}]

\* The invocation leaves the try statement.
triggerEnd(s, load) ==
    triggerFinally([s EXCEPT !.modalSystem.loads = @ \ {load}], load.url)

\* loadModalContent settles.  On success showModal reuses the modal of the
\* URL when the document holds one and else appends it and awaits
\* processNestedComponents(modal, ['modals']).
fetchSettled(s, load, ok) ==
    IF ~ok THEN triggerEnd(showErrorModal(s), load)
    ELSE LET s0 == [closeModal(s) EXCEPT !.modalSystem.activeModal = load.url]
         IN IF Inside("modal") \subseteq s.attached
            THEN triggerEnd(showModalEnd(s0, load.url), load)
            ELSE LET s1 == processNestedComponents(
                               [s0 EXCEPT !.attached =
                                              @ \cup Inside("modal")],
                               "modal", {"modals"}, load.id)
                 IN [s1 EXCEPT !.modalSystem.loads =
                                   (@ \ {load}) \cup
                                       {[load EXCEPT !.stage = "nested"]}]

\* showModal after its await of processNestedComponents.
showModalResume(s, load) == triggerEnd(showModalEnd(s, load.url), load)

(* an initializer resumes.                                                 *)
(***************************************************************************)
\* loadComponent after Promise.all resolved: module.default(component).
\* The promise the initializer returns is dropped.
loadComponentResume(s, t) ==
    initializer([s EXCEPT !.tasks = @ \ {t}], t.el, t.id, t.via)

\* loadComponent after Promise.all rejected.
loadComponentFail(s, t) ==
    loadComponentCatch([s EXCEPT !.tasks = @ \ {t}], t.el)

\* A link handler that marks the stylesheet loaded on error as on load.
linkEventAlwaysMarks(s, l, ok) ==
    LET s1 == [s EXCEPT !.links = (@ \ {l}) \cup
                                  {[l EXCEPT !.state = "settled"]}]
        waiting == {t \in s.tasks : /\ t.kind = "load" /\ t.el = l.el
                                    /\ t.id = l.id /\ t.css = "wait"}
    IN IF l.by = "batch"
       THEN [s1 EXCEPT !.tracker = trackerMarkLoaded(@, l.name, "css")]
       ELSE IF l.el = "none"
       THEN IF ok THEN s1 ELSE [s1 EXCEPT !.unhandled = @ \cup {"css"}]
       ELSE IF waiting = {} THEN s1
       ELSE LET t == CHOOSE w \in waiting : TRUE
            IN IF ~ok THEN loadComponentFail(s1, t)
               ELSE IF t.imp = "ok" THEN loadComponentResume(s1, t)
               ELSE [s1 EXCEPT !.tasks = (@ \ {t}) \cup
                                         {[t EXCEPT !.css = "ok"]}]

\* link.onload / link.onerror of one stylesheet link.
linkEvent(s, l, ok) ==
    LET s1 == [s EXCEPT !.links = (@ \ {l}) \cup
                                  {[l EXCEPT !.state = "settled"]}]
        waiting == {t \in s.tasks : /\ t.kind = "load" /\ t.el = l.el
                                    /\ t.id = l.id /\ t.css = "wait"}
    IN IF l.by = "batch"
       THEN IF ok
            THEN [s1 EXCEPT !.tracker = trackerMarkLoaded(@, l.name, "css")]
            ELSE s1
       ELSE IF l.el = "none"
       THEN IF ok THEN s1 ELSE [s1 EXCEPT !.unhandled = @ \cup {"css"}]
       ELSE IF waiting = {} THEN s1
       ELSE LET t == CHOOSE w \in waiting : TRUE
            IN IF ~ok THEN loadComponentFail(s1, t)
               ELSE IF t.imp = "ok" THEN loadComponentResume(s1, t)
               ELSE [s1 EXCEPT !.tasks = (@ \ {t}) \cup
                                         {[t EXCEPT !.css = "ok"]}]

\* The elements a batch import initializes: context.querySelectorAll of the
\* name, those whose status is not 'loaded'.
batchTargets(s, t) ==
    SelectSeq(DomOrder,
              LAMBDA c : /\ c \in Inside(t.cont) \cap s.attached
                         /\ componentName(c) = t.name
                         /\ s.status[c] # "loaded")

RECURSIVE initializeEach(_, _, _)
initializeEach(s, list, id) ==
    IF list = <<>> THEN s
    ELSE initializeEach(initializer(s, Head(list), id, "batch"),
                        Tail(list), id)

\* One name of loadAndInitializeComponentsJS after its import settled.
batchResume(s, t, ok) ==
    LET call == CHOOSE c \in s.pncCalls : c.id = t.id
        targets == batchTargets(s, t)
        s1 == [s EXCEPT !.tasks = @ \ {t}]
        s2 == IF ok
              THEN [initializeEach(s1, targets, t.id)
                       EXCEPT !.tracker = trackerMarkLoaded(@, t.name, "js")]
              ELSE s1
        call2 == [call EXCEPT !.pending = @ \ {t.name},
                              !.inv = IF ok
                                      THEN @ \cup {targets[i] :
                                                   i \in 1..Len(targets)}
                                      ELSE @,
                              !.ok = @ /\ ok]
    IN [s2 EXCEPT !.pncCalls = (@ \ {call}) \cup {call2}]

\* import(`/components/${name}/${name}.js`) settles for one awaiting task.
importSettled(s, t, ok) ==
    LET others == {u \in s.tasks : /\ u # t /\ u.name = t.name
                                   /\ u.kind # "init" /\ u.imp = "wait"}
        s1 == [s EXCEPT !.moduleMap[t.name] =
                   IF ok THEN "ok" ELSE IF others # {} THEN "bad" ELSE "none"]
    IN CASE t.kind = "load" ->
              IF ~ok THEN loadComponentFail(s1, t)
              ELSE IF t.css = "ok" THEN loadComponentResume(s1, t)
              ELSE [s1 EXCEPT !.tasks = (@ \ {t}) \cup
                                        {[t EXCEPT !.imp = "ok"]}]
         [] t.kind = "crit" ->
              IF ok THEN initializer([s1 EXCEPT !.tasks = @ \ {t}], t.el, t.id,
                                     t.via)
              ELSE executeSingleCatch([s1 EXCEPT !.tasks = @ \ {t}], t.el)
         [] t.kind = "batch" -> batchResume(s1, t, ok)

\* The initializer after its await: build the markup, then markLoaded; a
\* throw rejects the promise the initializer returned, which nobody holds.
initializerResume(s, t, ok) ==
    LET s1 == [s EXCEPT !.tasks = @ \ {t}]
    IN IF ok THEN markLoaded(s1, t.el)
       ELSE [s1 EXCEPT !.unhandled = @ \cup {"initializer"}]

(***************************************************************************)
(* Initial state: the orchestrator constructed on one of the pages.  A     *)
(* prerendered page may carry the body class 'critical-executed' of the    *)
(* capture; its critical element is then as the capture left it: 'loaded', *)
(* or 'executing' when its load had not completed.                         *)
(***************************************************************************)
CapturedStatuses(marker) ==
    IF marker THEN {"loaded", "executing"} ELSE {"unset"}

\* The orchestrator before init(): the site it was constructed for.
NewBoot(variant, hostname, gtmId) ==
    [variant |-> variant, hostname |-> hostname, gtmId |-> gtmId,
     phases |-> <<>>, deps |-> [d \in HeavyDeps |-> "idle"],
     lazyLink |-> FALSE, vendor |-> "idle", handlers |-> FALSE,
     gtm |-> FALSE, settled |-> "idle"]

InitPage(pages) ==
    /\ page \in pages
    /\ criticalExecuted \in (IF page.prerendered THEN BOOLEAN ELSE {FALSE})
    /\ \E navStatus \in CapturedStatuses(criticalExecuted) :
           status = [e \in Elems |->
                        IF page.prerendered /\ e = "eBrand" THEN "loading"
                        ELSE IF e = "eNav" THEN navStatus
                        ELSE "unset"]
    /\ links = {}
    /\ tracker = [css |-> {}, js |-> {}]
    /\ executedComponents = {}
    /\ loadedComponents = {}
    /\ observedComponents = {}
    /\ ioTargets = {}
    /\ tasks = {}
    /\ pncCalls = {}
    /\ moduleMap = [n \in Names |-> "none"]
    /\ initInvoked = [e \in Elems |-> 0]
    /\ loadedCount = [e \in Elems |-> 0]
    /\ unhandled = {}
    /\ critEvents = <<>>
    /\ attached = PageElems(page) \ Inside("modal")
    /\ fallbackPending = ~page.io
    /\ modalSystem = NewModalSystem
    /\ calls = 0

(***************************************************************************)
(* jsonFetch(url, {chunk: true, chunkSize}).  The server holds a dataset   *)
(* of n items, 1..n, and answers the request for (offset, limit) with the  *)
(* items offset+1..offset+limit it has, as a page of one shape: an object  *)
(* with the array under data, results or items, or a bare array; an object *)
(* page carries the field total when the server reports it.                *)
(***************************************************************************)
MaxItems == 4

MaxChunkSize == 3

PageShapes == {"data", "results", "items", "array"}

Dataset(n) == [i \in 1..n |-> i]

Min(a, b) == IF a <= b THEN a ELSE b

\* The body of the response to ?offset=..&limit=..
serverPage(f, offset, limit) ==
    [shape |-> f.shape,
     items |-> SubSeq(Dataset(f.n), offset + 1, Min(offset + limit, f.n)),
     hasTotal |-> f.reportsTotal,
     total |-> f.n]

\* chunk.total || chunk.totalItems || chunk.data?.length || total: the
\* first operand that is neither undefined nor 0.  knownTotal is FALSE
\* while total is Infinity.
nextTotal(f, pg) ==
    IF pg.hasTotal /\ pg.total # 0
    THEN [known |-> TRUE, total |-> pg.total]
    ELSE IF pg.shape = "data" /\ Len(pg.items) # 0
    THEN [known |-> TRUE, total |-> Len(pg.items)]
    ELSE [known |-> f.knownTotal, total |-> f.total]

\* chunk.data || chunk.results || chunk.items || []: a bare array has none
\* of the three fields, so items is the empty array.
extractItems(pg) == IF pg.shape = "array" THEN <<>> ELSE pg.items

\* What results.push receives: items is an array in every case, so the
\* branch for a chunk that is itself an array is never taken.
pushedItems(pg) == extractItems(pg)

\* jsonFetch before the first request.
NewFetch(n, chunkSize, shape, reportsTotal) ==
    [n |-> n, chunkSize |-> chunkSize, shape |-> shape,
     reportsTotal |-> reportsTotal, offset |-> 0, knownTotal |-> FALSE,
     total |-> 0, results |-> <<>>, requests |-> <<>>, pc |-> "request"]

\* One turn of the while loop after its fetch settled: the thrown error
\* of a failed response, else total, items, offset, the safety break and
\* the loop condition offset < total.
chunkReceived(f, ok) ==
    IF ~ok THEN [f EXCEPT !.pc = "failed",
                          !.requests = Append(@, f.offset)]
    ELSE LET pg == serverPage(f, f.offset, f.chunkSize)
             tot == nextTotal(f, pg)
             offset == f.offset + f.chunkSize
         IN [f EXCEPT !.knownTotal = tot.known,
                      !.total = tot.total,
                      !.results = @ \o pushedItems(pg),
                      !.requests = Append(@, f.offset),
                      !.offset = offset,
                      !.pc = IF Len(extractItems(pg)) = 0 THEN "done"
                             ELSE IF ~tot.known \/ offset < tot.total
                             THEN "request"
                             ELSE "done"]

\* No jsonFetch is running.
NoFetch == NewFetch(0, 1, "data", FALSE)

\* The sessions of the component executors: ExecutionOrchestrator
\* constructed without an analytics id on a public hostname.
InitOn(pages) ==
    /\ InitPage(pages)
    /\ boot = NewBoot("core", <<"www", "example", "com">>, FALSE)
    /\ fetchState = NoFetch

Init == InitOn(Pages)

(***************************************************************************)
(* Actions.  A call from outside takes the next call id.                   *)
(***************************************************************************)
Call(s) ==
    /\ calls < MaxCalls
    /\ calls' = calls + 1
    /\ Commit(s)

Step(s) ==
    /\ calls' = calls
    /\ Commit(s)

OrchestratorInit ==
    /\ calls = 0
    /\ Call(orchestratorInit(Cur, calls + 1))

ExecuteImmediate ==
    /\ calls < MaxCalls
    /\ Call(executeImmediate(Cur, calls + 1))

ObserveNonCriticalComponents ==
    /\ calls < MaxCalls
    /\ Call(observeNonCriticalComponents(Cur, calls + 1))

\* The caller holds a reference to a component element of the page, in the
\* document or removed from it.
ExecuteComponent ==
    \E el \in attached \cup (PageElems(page) \ Inside("modal")) :
        Call(executeComponent(Cur, el, calls + 1))

\* The (container, exclude list) pairs processNestedComponents is called
\* with.
NestedCalls ==
    {<<"document", {"modals"}>>, <<"document", {"cards"}>>,
     <<"footer", {"modals"}>>, <<"modal", {"modals"}>>}

ProcessNestedComponents ==
    \E nc \in NestedCalls :
        /\ nc[1] = "modal" => Inside("modal") \subseteq attached
        /\ Call(processNestedComponents(Cur, nc[1], nc[2], calls + 1))

\* ModalSystem.showModal for a URL with no modal in the document yet: the
\* modal is appended, then processNestedComponents(modal, ['modals']).
ShowModal ==
    /\ Inside("modal") \subseteq PageElems(page)
    /\ ~(Inside("modal") \subseteq attached)
    /\ Call(processNestedComponents(
                [Cur EXCEPT !.attached = @ \cup Inside("modal")],
                "modal", {"modals"}, calls + 1))

\* The isIntersecting values of the entries one callback delivers for a
\* target: the observer queues an entry at every change of intersection, so
\* one delivery may hold more than one entry of the same target.
EntryLists == {<<TRUE>>, <<FALSE>>, <<TRUE, TRUE>>, <<FALSE, TRUE>>}

\* The IntersectionObserver callback: entries.forEach.
RECURSIVE intersectionCallback(_, _, _)
intersectionCallback(s, el, entries) ==
    IF entries = <<>> THEN s
    ELSE intersectionCallback(
             IF Head(entries)
             THEN [loadAndExecuteComponent(s, el, 0)
                      EXCEPT !.ioTargets = @ \ {el}]
             ELSE s,
             el, Tail(entries))

Intersection ==
    \E el \in ioTargets, entries \in EntryLists :
        Step(intersectionCallback(Cur, el, entries))

FallbackTimer ==
    /\ fallbackPending
    /\ Step(fallbackLoading(Cur, 0))

LinkEvent ==
    \E l \in links, ok \in BOOLEAN :
        /\ l.state = "pending"
        /\ Step(linkEvent(Cur, l, ok))

ImportSettled ==
    \E t \in tasks, ok \in BOOLEAN :
        /\ t.kind # "init"
        /\ t.imp = "wait"
        /\ ok => moduleMap[t.name] # "bad"
        /\ ~ok => moduleMap[t.name] # "ok"
        /\ Step(importSettled(Cur, t, ok))

InitializerResume ==
    \E t \in tasks, ok \in BOOLEAN :
        /\ t.kind = "init"
        /\ Step(initializerResume(Cur, t, ok))

Next ==
    \/ OrchestratorInit
    \/ ExecuteImmediate
    \/ ObserveNonCriticalComponents
    \/ ExecuteComponent
    \/ ProcessNestedComponents
    \/ ShowModal
    \/ Intersection
    \/ LinkEvent
    \/ ImportSettled
    \/ InitializerResume

Spec == Init /\ [][Next]_vars

(***************************************************************************)
(* The two executors on every kind of page: the pages of Spec, the browser *)
(* without IntersectionObserver, where the constructor of DeferredLoader   *)
(* has armed the fallback timer, and the prerendered page.                 *)
(***************************************************************************)
AllPages ==
    Pages \cup {NoObserverPage, PrerenderedPage, NoObserverPrerenderedPage}

InitAllPages == InitOn(AllPages)

NextExecutors ==
    \/ OrchestratorInit
    \/ ExecuteImmediate
    \/ ObserveNonCriticalComponents
    \/ ExecuteComponent
    \/ Intersection
    \/ FallbackTimer
    \/ LinkEvent
    \/ ImportSettled
    \/ InitializerResume

SpecExecutors == InitAllPages /\ [][NextExecutors]_vars

(***************************************************************************)
(* The observation machinery of the DeferredLoader on the pages with an    *)
(* IntersectionObserver: discovery passes and observer callbacks.          *)
(***************************************************************************)
InitObserver == InitOn(Pages \cup {PrerenderedPage})

NextObserver ==
    \/ OrchestratorInit
    \/ ObserveNonCriticalComponents
    \/ Intersection
    \/ LinkEvent
    \/ ImportSettled
    \/ InitializerResume

SpecObserver == InitObserver /\ [][NextObserver]_vars

(***************************************************************************)
(* The executors on a page whose component elements may leave the          *)
(* document at any moment between two tasks: a transformer that merges its *)
(* content into a sibling removes its own element (component.remove()).    *)
(* References to the element stay where they were: in the executed-set,  *)
(* the loaded-set, the observer's targets, queued intersection entries and *)
(* the closures of pending loads.                                          *)
(***************************************************************************)
removeComponent(s, el) == [s EXCEPT !.attached = @ \ {el}]

RemoveComponent ==
    \E el \in attached : Step(removeComponent(Cur, el))

InitRemoval == InitOn(Pages)

NextRemoval ==
    \/ OrchestratorInit
    \/ ObserveNonCriticalComponents
    \/ ExecuteComponent
    \/ Intersection
    \/ LinkEvent
    \/ ImportSettled
    \/ InitializerResume
    \/ RemoveComponent

SpecRemoval == InitRemoval /\ [][NextRemoval]_vars

(***************************************************************************)
(* init() to its end: either orchestrator, on the hostnames the override   *)
(* tests for and on others, with and without a configured analytics id;    *)
(* every dependency may succeed or fail.                                   *)
(***************************************************************************)
Hostnames ==
    {<<"localhost">>, <<"127", "0", "0", "1">>,
     <<"preview", "nimbusedge", "app">>, <<"nimbusedge", "app">>,
     <<"www", "example", "com">>}

DepSettled ==
    \E d \in HeavyDeps, ok \in BOOLEAN :
        /\ boot.deps[d] = "wait"
        /\ Step(depSettled(Cur, d, ok))

VendorSettled ==
    \E ok \in BOOLEAN, throws \in BOOLEAN :
        /\ boot.vendor = "wait"
        /\ Step(vendorSettled(Cur, ok, throws))

InitBoot ==
    /\ InitPage(Pages)
    /\ fetchState = NoFetch
    /\ \E variant \in {"core", "site"}, hostname \in Hostnames,
          gtmId \in BOOLEAN :
           boot = NewBoot(variant, hostname, gtmId)

NextBoot ==
    \/ OrchestratorInit
    \/ VendorSettled
    \/ DepSettled
    \/ LinkEvent
    \/ ImportSettled

SpecBoot == InitBoot /\ [][NextBoot]_vars

(***************************************************************************)
(* The modal system: clicks on one trigger button, its fetch and the       *)
(* components of the modal it shows.                                       *)
(***************************************************************************)
MaxTriggers == 3

ModalTrigger ==
    \E url \in Urls :
        /\ modalSystem.triggers < MaxTriggers
        /\ Step(handleModalTrigger(Cur, url, modalSystem.triggers + 1))

FetchSettled ==
    \E load \in modalSystem.loads, ok \in BOOLEAN :
        /\ load.stage = "fetch"
        /\ Step(fetchSettled(Cur, load, ok))

\* The processNestedComponents a showModal awaits has resolved.
ShowModalResumes ==
    \E load \in modalSystem.loads :
        /\ load.stage = "nested"
        /\ \E c \in pncCalls : c.id = load.id /\ c.pending = {}
        /\ Step(showModalResume(Cur, load))

\* The user closes the shown modal (backdrop click, Escape, close button).
ModalHide ==
    /\ modalSystem.shown # "none"
    /\ Step(modalHidden(Cur))

InitModal == InitOn({[optimize |-> FALSE, io |-> TRUE, prerendered |-> FALSE]})

NextModal ==
    \/ ModalTrigger
    \/ FetchSettled
    \/ ShowModalResumes
    \/ ModalHide
    \/ LinkEvent
    \/ ImportSettled
    \/ InitializerResume

SpecModal == InitModal /\ [][NextModal]_vars

(***************************************************************************)
(* A chunked jsonFetch against every dataset, chunk size and page shape    *)
(* within the bounds.                                                      *)
(***************************************************************************)
ChunkReceived ==
    \E ok \in BOOLEAN :
        /\ fetchState.pc = "request"
        /\ fetchState' = chunkReceived(fetchState, ok)
        /\ UNCHANGED siteVars

InitFetch ==
    /\ InitPage({[optimize |-> FALSE, io |-> TRUE, prerendered |-> FALSE]})
    /\ boot = NewBoot("core", <<"www", "example", "com">>, FALSE)
    /\ \E n \in 0..MaxItems, chunkSize \in 1..MaxChunkSize,
          shape \in PageShapes, reportsTotal \in BOOLEAN :
           /\ shape = "array" => ~reportsTotal
           /\ fetchState = NewFetch(n, chunkSize, shape, reportsTotal)

NextFetch == ChunkReceived

SpecFetch == InitFetch /\ [][NextFetch]_vars

(***************************************************************************)
(* Properties.                                                             *)
(***************************************************************************)
\* The step taken leads to the store s.
Becomes(s) ==
    /\ status' = s.status
    /\ links' = s.links
    /\ tracker' = s.tracker
    /\ executedComponents' = s.executedComponents
    /\ loadedComponents' = s.loadedComponents
    /\ observedComponents' = s.observedComponents
    /\ ioTargets' = s.ioTargets
    /\ tasks' = s.tasks
    /\ pncCalls' = s.pncCalls
    /\ moduleMap' = s.moduleMap
    /\ initInvoked' = s.initInvoked
    /\ loadedCount' = s.loadedCount
    /\ unhandled' = s.unhandled
    /\ criticalExecuted' = s.criticalExecuted
    /\ critEvents' = s.critEvents
    /\ attached' = s.attached
    /\ boot' = s.boot
    /\ modalSystem' = s.modalSystem

\* The stylesheet links of the document for /components/<name>/<name>.css.
LinksOf(name) == {l \in links : l.name = name}

\* C1: over every interleaving of trigger attempts the initializer is
\* invoked on an element at most once while its status is not 'loaded', and
\* an element that reached 'loaded' had it invoked exactly once.
C1_InitializedAtMostOnce ==
    \A e \in Elems :
        /\ initInvoked[e] <= 1
        /\ status[e] = "loaded" => initInvoked[e] = 1

\* C2: the document holds at most one stylesheet link per component name,
\* whichever of loadComponentCSS and loadComponentsCSS handled the name.
C2_OneStylesheetLinkPerName ==
    \A n \in Names : Cardinality(LinksOf(n)) <= 1

\* C9: no stylesheet, import or initializer failure is left as an unhandled
\* promise rejection or uncaught error.
C9_NoFailureEscapes == unhandled = {}

\* The step rejects the import awaited by task t.
ImportRejectStep(t) ==
    /\ t.kind # "init"
    /\ t.imp = "wait"
    /\ moduleMap[t.name] # "ok"
    /\ Becomes(importSettled(Cur, t, FALSE))

\* The step is the error event of the link the loadComponent of t awaits.
LinkErrorStep(t) ==
    /\ t.kind = "load"
    /\ t.css = "wait"
    /\ \E l \in links : /\ l.state = "pending" /\ l.by = "single"
                        /\ l.el = t.el /\ l.id = t.id
                        /\ Becomes(linkEvent(Cur, l, FALSE))

\* The step is the initializer invoked by task t's caller throwing.
InitializerThrowStep(t) ==
    /\ t.kind = "init"
    /\ Becomes(initializerResume(Cur, t, FALSE))

\* The step is a failure of the loadComponent(t.el) that t stands for.
LoadComponentFailStep(t) ==
    \/ t.kind = "load" /\ (ImportRejectStep(t) \/ LinkErrorStep(t))
    \/ t.kind = "init" /\ t.via = "deferred" /\ InitializerThrowStep(t)

\* The step resolves the promise of the processNestedComponents call c.
NestedResolveStep(c) ==
    /\ c \in pncCalls'
    /\ c \notin pncCalls
    /\ c.pending = {}

\* The elements an import awaited by task t is for.
TargetsOf(t) ==
    IF t.kind = "batch"
    THEN {e \in Inside(t.cont) \cap attached :
             componentName(e) = t.name /\ status[e] # "loaded"}
    ELSE {t.el}

\* C3: when the promise of a processNestedComponents call whose imports
\* succeeded resolves, the initializer has been invoked (by this call, or
\* before it) on every element of the container with a name not excluded
\* and a status other than 'loaded'.
C3_NestedInitializesAll ==
    [][\A c \in pncCalls' :
          (NestedResolveStep(c) /\ c.ok) =>
              \A e \in Inside(c.cont) \cap attached' :
                  (componentName(e) \notin c.excl /\ status'[e] # "loaded")
                      => (e \in c.inv \/ initInvoked'[e] > 0)]_vars

\* C4: a failure of a load started by loadAndExecuteComponent removes the
\* element from the loaded-set.
C4_FailureRemovesFromLoadedSet ==
    [][\A t \in tasks :
          (t.via = "deferred" /\ LoadComponentFailStep(t))
              => t.el \notin loadedComponents']_vars

\* C5: a load path called on an element whose status is 'loaded' inserts no
\* link, starts no import, transforms nothing and leaves the status.
C5_LoadedIsNoOp ==
    [][\A el \in attached :
          (/\ status[el] = "loaded"
           /\ \/ calls' = calls + 1 /\ Becomes(executeComponent(Cur, el,
                                                                calls + 1))
              \/ el \in ioTargets
                 /\ Becomes([loadAndExecuteComponent(Cur, el, 0)
                                EXCEPT !.ioTargets = @ \ {el}]))
              => /\ links' = links
                 /\ tasks' = tasks
                 /\ status' = status
                 /\ loadedCount' = loadedCount]_vars

\* C6: in non-optimize mode a rejected import leaves its element with
\* status 'error' and touches no other element's status or pending load.
C6_FailureIsolatedAndRecorded ==
    [][\A t \in tasks :
          (~optimize /\ ImportRejectStep(t)) =>
              /\ \A a \in TargetsOf(t) : status'[a] = "error"
              /\ \A b \in Elems \ TargetsOf(t) : status'[b] = status[b]
              /\ \A u \in tasks \ {t} : u \in tasks']_vars

\* C7: in non-optimize mode every failure of loadComponent (stylesheet
\* error, import rejection, initializer throwing or rejecting) ends with
\* the status 'error'.
C7_FailureSetsError ==
    [][\A t \in tasks :
          (~optimize /\ LoadComponentFailStep(t))
              => status'[t.el] = "error"]_vars

\* C8: in optimize mode a failed load by loadComponent or by
\* executeSingleComponent leaves the status unset.
C8_OptimizeFailureLeavesUnset ==
    [][\A t \in tasks :
          (/\ optimize
           /\ \/ LoadComponentFailStep(t)
              \/ t.kind = "crit" /\ ImportRejectStep(t))
              => status'[t.el] = "unset"]_vars

\* C10: an element enters 'loaded' at most once, and once 'loaded' its
\* status never changes.
C10_LoadedIsFinal ==
    [][\A e \in Elems :
          /\ status[e] = "loaded" => status'[e] = "loaded"
          /\ (status[e] # "loaded" /\ status'[e] = "loaded")
                 => loadedCount[e] = 0]_vars

(***************************************************************************)
(* Ownership, status domain and the critical executor.                     *)
(***************************************************************************)
\* The elements the CriticalExecutor has dispatched, and those the
\* DeferredLoader has observed or dispatched.
CriticalOwned ==
    executedComponents \cup {t.el : t \in {u \in tasks : u.via = "critical"}}

DeferredOwned ==
    loadedComponents \cup observedComponents \cup ioTargets
        \cup {t.el : t \in {u \in tasks : u.via = "deferred"}}

\* C11: the CriticalExecutor dispatches only elements marked critical, the
\* DeferredLoader observes or dispatches only elements not marked critical,
\* and no element is dispatched by both.
C11_OwnershipByPriority ==
    /\ \A e \in CriticalOwned : isCriticalComponent(e)
    /\ \A e \in DeferredOwned : ~isCriticalComponent(e)
    /\ CriticalOwned \cap DeferredOwned = {}

\* The prerendered page with the nav dispatched by the CriticalExecutor, the
\* footer-brand dispatched at once and the cards observed by the
\* DeferredLoader.
C11_Witness ==
    /\ page.prerendered
    /\ "eNav" \in executedComponents
    /\ "eBrand" \in loadedComponents
    /\ "eCards" \in ioTargets

\* C12: every status is one of unset, 'loading', 'executing', 'loaded',
\* 'error'; a step that sets 'error' starts from 'loading' or 'executing'
\* and never happens in optimize mode.
C12_StatusDomainAndErrorOrigin ==
    [][\A e \in Elems :
          /\ status'[e] \in Statuses
          /\ (status'[e] = "error" /\ status[e] # "error")
                 => (status[e] \in {"loading", "executing"} /\ ~optimize)]_vars

\* The step starts the module import of a critical dispatch of e.
CriticalDispatchStep(e) ==
    \E t \in tasks' \ tasks : t.kind = "crit" /\ t.el = e

\* C13: a critical element is dispatched at most once: the dispatching pass
\* finds it outside the executed-set, puts it there and sets its status to
\* 'executing' in the same step, and the executed-set never shrinks.
C13_CriticalDispatchedOnce ==
    [][/\ executedComponents \subseteq executedComponents'
       /\ \A e \in Elems :
              CriticalDispatchStep(e) =>
                  /\ e \notin executedComponents
                  /\ e \in executedComponents'
                  /\ status'[e] = "executing"]_vars

\* Two executeImmediate() calls were made and nothing else: the nav was
\* dispatched and no deferred element was observed or dispatched.
C13_Witness ==
    /\ calls = 2
    /\ "eNav" \in executedComponents
    /\ loadedComponents = {}
    /\ observedComponents = {}
    /\ Len(critEvents) = 1

\* The step is a call of executeImmediate().
ExecuteImmediateStep ==
    /\ calls' = calls + 1
    /\ Becomes(executeImmediate(Cur, calls + 1))

\* C14: with the 'critical-executed' marker present, executeImmediate()
\* returns 0, changes no status, leaves the executed-set and the document
\* as they are, starts no stylesheet load or import and emits no event.
C14_MarkerMakesExecuteImmediateNoOp ==
    [][(criticalExecuted /\ ExecuteImmediateStep) =>
          /\ executeImmediate(Cur, calls + 1).ret = 0
          /\ UNCHANGED <<status, executedComponents, links, tasks, critEvents,
                         criticalExecuted, moduleMap, initInvoked>>]_vars

\* executeImmediate() was called on a prerendered page that carries the
\* marker while its critical nav is not loaded: nothing else was called,
\* and the nav is neither dispatched nor touched.
C14_Witness ==
    /\ page.prerendered
    /\ criticalExecuted
    /\ calls = 1
    /\ loadedComponents = {}
    /\ observedComponents = {}
    /\ status["eNav"] = "executing"
    /\ "eNav" \notin executedComponents

\* The elements in the detail of the last 'critical:executed' event.
LastEventComponents(events) ==
    {events[Len(events)][i] : i \in 1..Len(events[Len(events)])}

CriticalFailed(e) ==
    /\ e \in executedComponents
    /\ status[e] # "loaded"
    /\ ~\E u \in tasks : u.el = e /\ u.via = "critical"

\* C16: once the load of a critical element has failed, it stays in the
\* executed-set, and no later call starts another import or another
\* initializer invocation for it.
C16_FailedCriticalNeverRetried ==
    [][\A e \in Elems :
          CriticalFailed(e) =>
              /\ e \in executedComponents'
              /\ ~CriticalDispatchStep(e)
              /\ initInvoked'[e] = initInvoked[e]
              /\ ~\E u \in tasks' : u.el = e /\ u.via = "critical"]_vars

\* The import of the nav was rejected (status 'error'), and two calls of
\* executeImmediate or executeComponent(nav) have been made.
C16_Witness ==
    /\ CriticalFailed("eNav")
    /\ status["eNav"] = "error"
    /\ initInvoked["eNav"] = 0
    /\ calls = 2
    /\ loadedComponents = {}
    /\ observedComponents = {}

(***************************************************************************)
(* The deferred loader.                                                    *)
(***************************************************************************)
\* The step is a call of observeNonCriticalComponents().
ObserveStep ==
    /\ calls' = calls + 1
    /\ Becomes(observeNonCriticalComponents(Cur, calls + 1))

\* The 'loading' component elements below a node with status 'loaded'.
RecoveryCandidates ==
    {e \in attached : /\ status[e] = "loading"
                      /\ e \notin loadedComponents
                      /\ \E k \in LoadedNodes : e \in Inside(k)}

\* The candidates of a discovery pass.
EligibleCandidates ==
    {e \in attached : /\ ~isCriticalComponent(e)
                      /\ status[e] # "loaded"
                      /\ e \notin loadedComponents}
        \cup RecoveryCandidates

\* C17: in optimize mode observeNonCriticalComponents() starts the load of
\* every eligible candidate, registers nothing with the intersection
\* observer and returns the number of candidates.
C17_OptimizeBypassesObserver ==
    [][(optimize /\ ObserveStep) =>
          /\ \A e \in EligibleCandidates :
                 /\ e \in loadedComponents'
                 /\ \E u \in tasks' \ tasks : u.kind = "load" /\ u.el = e
          /\ UNCHANGED <<observedComponents, ioTargets>>
          /\ observeNonCriticalComponents(Cur, calls + 1).ret
                 = Cardinality(EligibleCandidates)]_vars

\* In optimize mode the cards were dispatched by a discovery pass made
\* after init(): nothing is registered with the observer.
C17_Witness ==
    /\ optimize
    /\ calls = 2
    /\ "eCards" \in loadedComponents
    /\ "eNav" \in executedComponents
    /\ observedComponents = {}
    /\ ioTargets = {}

\* C18: in non-optimize mode a discovery pass dispatches at once every
\* 'loading' element below a 'loaded' element that is not in the
\* loaded-set, and does not register it with the observer; the dispatch
\* precedes the registrations of the pass, so it has happened even when a
\* registration of the pass throws.
C18_PrerenderRecoveryImmediate ==
    [][(~optimize /\ ObserveStep) =>
          \A e \in RecoveryCandidates :
              /\ e \in loadedComponents'
              /\ \E u \in tasks' \ tasks : u.kind = "load" /\ u.el = e
              /\ e \notin observedComponents'
              /\ e \notin ioTargets']_vars

\* On the prerendered page one discovery pass has dispatched the
\* footer-brand and registered the cards with the observer.
C18_Witness ==
    /\ page = PrerenderedPage
    /\ calls = 1
    /\ executedComponents = {}
    /\ "eBrand" \in loadedComponents
    /\ "eBrand" \notin observedComponents
    /\ observedComponents = {"eCards"}

\* The load tasks the step starts for e.
LoadsStarted(e) ==
    {u \in tasks' : /\ u.kind = "load" /\ u.el = e
                    /\ ~\E v \in tasks : /\ v.kind = "load" /\ v.el = e
                                         /\ v.id = u.id}

FallbackStep == fallbackPending /\ ~fallbackPending'

\* The candidates of the fallback load.
FallbackCandidates ==
    {e \in attached : /\ ~isCriticalComponent(e)
                      /\ status[e] # "loaded"
                      /\ e \notin loadedComponents}

\* C20: without IntersectionObserver the timer callback dispatches every
\* eligible candidate in the same pass, and a failure of a candidate it
\* dispatched (stylesheet error, import rejection, initializer error)
\* touches no other pending load and is not left as an unhandled error.
C20_FallbackLoadsAllSwallowsFailures ==
    [][/\ FallbackStep =>
              \A e \in FallbackCandidates :
                  e \in loadedComponents' /\ LoadsStarted(e) # {}
       /\ \A t \in tasks :
              (~hasIO /\ t.id = 0 /\ LoadComponentFailStep(t)) =>
                  /\ \A u \in tasks \ {t} : u \in tasks'
                  /\ unhandled' = unhandled]_vars

(***************************************************************************)
(* The orchestrator.                                                       *)
(***************************************************************************)
\* The step is init() running its synchronous phases on the document of
\* the end-to-end scenario: a critical nav, a deferred cards, and a
\* footer-brand at 'loading' inside the footer marked 'loaded'.
ScenarioInitStep ==
    /\ page = PrerenderedPage
    /\ ~criticalExecuted
    /\ calls = 0
    /\ calls' = 1
    /\ Becomes(orchestratorInit(Cur, 1))

\* The step completes the initializer of task t.
InitializerDoneStep(t) ==
    /\ t.kind = "init"
    /\ Becomes(initializerResume(Cur, t, TRUE))

NestedStep(cont, excl) ==
    /\ calls' = calls + 1
    /\ \/ Becomes(processNestedComponents(Cur, cont, excl, calls + 1))
       \/ /\ cont = "modal"
          /\ Becomes(processNestedComponents(
                         [Cur EXCEPT !.attached = @ \cup Inside("modal")],
                         cont, excl, calls + 1))

\* The stylesheet links the step inserts and the batch imports it starts
\* for a name.
LinksInserted(n) == {l \in links' \ links : l.name = n}

ImportsStarted(n) ==
    {u \in tasks' \ tasks : u.kind = "batch" /\ u.name = n}

\* The names of the component elements inside a container after the step.
NamesInside(cont) == {componentName(e) : e \in Inside(cont) \cap attached'}

\* C22: processNestedComponents inserts no link and starts no import for
\* an excluded name or for a name that does not occur inside the
\* container; for every other name it inserts at most one link and starts
\* at most one import, exactly one when the tracker does not report the
\* resource loaded; when no name remains it changes nothing.
C22_NestedPerDistinctName ==
    [][\A nc \in NestedCalls :
          NestedStep(nc[1], nc[2]) =>
              /\ \A n \in Names :
                     /\ (n \in nc[2] \/ n \notin NamesInside(nc[1])) =>
                            LinksInserted(n) = {} /\ ImportsStarted(n) = {}
                     /\ Cardinality(LinksInserted(n)) <= 1
                     /\ Cardinality(ImportsStarted(n)) <= 1
                     /\ (n \in NamesInside(nc[1]) \ nc[2]) =>
                            /\ n \notin tracker.css
                                   => Cardinality(LinksInserted(n)) = 1
                            /\ n \notin tracker.js
                                   => Cardinality(ImportsStarted(n)) = 1
              /\ NamesInside(nc[1]) \ nc[2] = {} =>
                     links' = links /\ tasks' = tasks /\ status' = status]_vars

\* The modal was shown, and processNestedComponents was then called on the
\* document, which holds two cards elements: the call inserted one link for
\* cards.
C22_Witness ==
    /\ "eModalCards" \in attached
    /\ \E c \in pncCalls : c.cont = "document" /\ c.id = 2
    /\ Cardinality({l \in links : l.name = "cards" /\ l.id = 2}) = 1

\* C26: a name enters the css set of the tracker only in the step in which
\* a batch stylesheet link of that name fires its load event, and the js
\* set only in the step in which the batch import of that name resolves;
\* a link error and a rejected import leave both sets as they were.
C26_MarkedOnlyOnSuccess ==
    [][/\ \A n \in tracker'.css \ tracker.css :
              \E l \in links : /\ l.by = "batch" /\ l.name = n
                                /\ l.state = "pending"
                                /\ Becomes(linkEvent(Cur, l, TRUE))
       /\ \A n \in tracker'.js \ tracker.js :
              \E u \in tasks : /\ u.kind = "batch" /\ u.name = n
                                /\ u.imp = "wait"
                                /\ Becomes(importSettled(Cur, u, TRUE))
       /\ \A l \in links :
              (l.state = "pending" /\ Becomes(linkEvent(Cur, l, FALSE)))
                  => tracker' = tracker
       /\ \A u \in tasks :
              (/\ u.kind # "init" /\ u.imp = "wait"
               /\ Becomes(importSettled(Cur, u, FALSE)))
                  => tracker' = tracker]_vars

\* A stylesheet and a module were marked, and a batch whose import was
\* rejected has completed without its name being marked.
C26_Witness ==
    /\ tracker.css # {} /\ tracker.js # {}
    /\ \E c \in pncCalls : /\ ~c.ok /\ c.pending = {}
                            /\ \E n \in Names : n \notin tracker.js
    /\ \E l \in links : /\ l.by = "batch" /\ l.state = "settled"
                         /\ l.name \notin tracker.css

\* C27: the sets of the tracker never shrink; marking a name twice gives
\* what marking it once gives; marking a name for one type leaves the set
\* of the other type as it was; isLoaded leaves the tracker as it was.
C27_TrackerMonotoneAndIdempotent ==
    /\ [][\A k \in ResourceTypes : tracker[k] \subseteq tracker'[k]]_vars
    /\ [](\A n \in Names, k \in ResourceTypes :
             LET once == trackerMarkLoaded(tracker, n, k)
             IN /\ tracker[k] \subseteq once[k]
                /\ n \in once[k]
                /\ trackerMarkLoaded(once, n, k) = once
                /\ \A o \in ResourceTypes \ {k} : once[o] = tracker[o]
                /\ isLoaded(tracker, n, k).loadedResources = tracker
                /\ isLoaded(once, n, k).ret)

\* Both stylesheet names are marked and a module is marked.
C27_Witness ==
    /\ Cardinality(tracker.css) = 2
    /\ tracker.js # {}

(***************************************************************************)
(* loadComponent and its concurrent stylesheet load.                       *)
(***************************************************************************)
\* The step ends the await of a loadComponent whose import has resolved:
\* the import resolves with the stylesheet already there, or the
\* stylesheet link settles, either way, after the import resolved.
LoadAwaitEnds(t) ==
    /\ t.kind = "load"
    /\ \A u \in tasks' : ~(u.kind = "load" /\ u.el = t.el /\ u.id = t.id)
    /\ \/ t.imp = "ok"
       \/ t.imp = "wait" /\ t.css = "ok" /\ Becomes(importSettled(Cur, t, TRUE))

\* C29: when the await of a loadComponent ends and its import has
\* resolved, the initializer is invoked with the element (an element that
\* is 'loaded' by then makes the invocation return at once), whatever the
\* stylesheet load came to.
C29_InitializerInvokedWhenImportResolves ==
    [][\A t \in tasks :
          LoadAwaitEnds(t) =>
              \/ initInvoked'[t.el] = initInvoked[t.el] + 1
              \/ status[t.el] = "loaded"]_vars

(***************************************************************************)
(* Elements removed from the document.                                     *)
(***************************************************************************)
\* The component elements of the page that are no longer in the document.
Removed == (PageElems(page) \ Inside("modal")) \ attached

\* The step is an event of a load of element e: its import settles, its
\* stylesheet link fires, or its initializer completes or throws.
LoadEventStep(e) ==
    \E ok \in BOOLEAN :
        \/ \E t \in tasks :
               /\ t.el = e
               /\ \/ /\ t.kind # "init" /\ t.imp = "wait"
                     /\ Becomes(importSettled(Cur, t, ok))
                  \/ t.kind = "init" /\ Becomes(initializerResume(Cur, t, ok))
        \/ \E l \in links : /\ l.el = e /\ l.state = "pending"
                            /\ Becomes(linkEvent(Cur, l, ok))

\* The tasks of an element.
TasksOf(ts, e) == {t \in ts : t.el = e}

CorePhases ==
    <<"css", "critical", "preload", "observe", "navigation", "heavy",
      "modalHandlers", "analytics">>

\* The phases of the override: no stylesheet pass, the vendor libraries
\* and the scroll animations ahead of the heavy dependencies.
SitePhases ==
    <<"critical", "preload", "observe", "navigation", "vendor", "scroll",
      "heavy", "modalHandlers", "analytics">>

IsPrefix(a, b) == Len(a) <= Len(b) /\ a = SubSeq(b, 1, Len(a))

\* The three heavy dependencies have settled.
HeavySettled == \A d \in HeavyDeps : boot.deps[d] \in {"ok", "failed"}

\* The step is init() running to its first await.
InitStep == calls = 0 /\ calls' = 1 /\ Becomes(orchestratorInit(Cur, 1))

\* C23: the phases init() has entered are at every moment an initial part
\* of the fixed order (for the override: its own order, which is that
\* order without the stylesheet pass and with the vendor phases ahead of
\* the heavy dependencies); the step that observes or dispatches deferred
\* elements has dispatched every critical element it discovered; the
\* modal-trigger delegation is wired and analytics is started only after
\* the three heavy dependencies have settled.
C23_PhasesInFixedOrder ==
    /\ [](/\ boot.variant = "core" => IsPrefix(boot.phases, CorePhases)
          /\ boot.variant = "site" => IsPrefix(boot.phases, SitePhases)
          /\ (boot.handlers \/ boot.gtm) => HeavySettled
          /\ (\E i \in 1..Len(boot.phases) :
                  boot.phases[i] \in {"modalHandlers", "analytics"})
                 => HeavySettled)
    /\ [][InitStep =>
             \A e \in attached :
                 (/\ isCriticalComponent(e) /\ ~criticalExecuted
                  /\ e \notin executedComponents /\ status[e] # "loaded")
                     => /\ e \in executedComponents'
                        /\ e \notin observedComponents'
                        /\ e \notin loadedComponents']_vars

\* init() of the core orchestrator has run all its phases with nav
\* dispatched and cards observed.
C23_Witness ==
    /\ boot.variant = "core"
    /\ boot.phases = CorePhases
    /\ "eNav" \in executedComponents
    /\ "eCards" \in observedComponents

\* C24: whatever each of the three heavy dependencies came to, once all
\* three have settled init() has wired the modal-trigger delegation, has
\* run the analytics phase and has resolved; the three are started
\* together, so none waits for another.
C24_HeavyDependencyFailuresIsolated ==
    /\ HeavySettled =>
           /\ boot.handlers
           /\ boot.settled = "resolved"
           /\ boot.phases[Len(boot.phases)] = "analytics"
           /\ boot.phases[Len(boot.phases) - 1] = "modalHandlers"
    /\ (\E d \in HeavyDeps : boot.deps[d] # "idle")
           => \A d \in HeavyDeps : boot.deps[d] # "idle"

\* All three dependencies failed and init() resolved.
C24_Witness ==
    /\ \A d \in HeavyDeps : boot.deps[d] = "failed"
    /\ boot.settled = "resolved"
    /\ boot.handlers

\* C25: analytics is started only when an analytics id is configured, and
\* never on localhost, 127.0.0.1 or a host below nimbusedge.app.
C25_AnalyticsOnlyConfiguredAndPublic ==
    boot.gtm =>
        /\ boot.gtmId
        /\ ~isLocal(boot.hostname)
        /\ ~isNimbusEdge(boot.hostname)

(***************************************************************************)
(* The modal system.                                                       *)
(***************************************************************************)
\* The loads of a URL in flight.
LoadsInFlight(url) == {l \in modalSystem.loads : l.url = url}

\* C30: at no moment are two loads of the same URL in flight; a trigger
\* for a URL with a load in flight starts none; the step that ends the
\* load of a URL leaves the URL without loading state.
C30_OneLoadPerUrl ==
    /\ [](\A url \in Urls : Cardinality(LoadsInFlight(url)) <= 1)
    /\ [][\A url \in Urls :
              /\ (/\ LoadsInFlight(url) # {}
                  /\ Becomes(handleModalTrigger(Cur, url,
                                                modalSystem.triggers + 1)))
                     => modalSystem.loads' = modalSystem.loads
              /\ (LoadsInFlight(url) # {} /\ LoadsInFlight(url)' = {})
                     => url \notin modalSystem.loadingStates']_vars

(***************************************************************************)
(* Observation without IntersectionObserver.                               *)
(***************************************************************************)
\* C31: every call of observeNonCriticalComponents() returns the number
\* of its candidates and throws nothing, with or without
\* IntersectionObserver, and the promise of init() is never rejected.
C31_ObserveReturnsCount ==
    /\ [][ObserveStep =>
             LET r == observeNonCriticalComponents(Cur, calls + 1)
             IN /\ ~r.thrown
                /\ r.ret = Cardinality(EligibleCandidates)]_vars
    /\ [](boot.settled # "rejected")

\* C32: the latest hide of a modal ran cleanupModal once and dispatched
\* one 'modal:closed' event, whether the modal was opened for the first
\* time or reused.
C32_OneCleanupPerHide ==
    modalSystem.lastHide \in {[cleanups |-> 0, closed |-> 0],
                              [cleanups |-> 1, closed |-> 1]}

(***************************************************************************)
(* jsonFetch.                                                              *)
(***************************************************************************)
\* C33: the requests of a chunked jsonFetch are for the offsets 0,
\* chunkSize, 2 chunkSize, ..., and when it returns successfully data.data
\* is the whole dataset of the server, for each of the four page shapes,
\* with and without a reported total.
C33_ChunkedReturnsWholeDataset ==
    /\ \A i \in 1..Len(fetchState.requests) :
           fetchState.requests[i] = (i - 1) * fetchState.chunkSize
    /\ fetchState.pc = "done" => fetchState.results = Dataset(fetchState.n)

====
